---- MODULE Spec2Model ----
(***************************************************************************)
(* The arXiv ingestion job of the backend: triggers (daily cron job and    *)
(* POST /jobs/arxiv/run), artifact acquisition (S3, then pre-signed URL),  *)
(* line parsing, batched upserts into MongoDB and category seeding; and the *)
(* token check of the authenticated routes.                                *)
(***************************************************************************)
EXTENDS Integers, Sequences, FiniteSets, TLC

(***************************************************************************)
(* Bounds of the model.                                                    *)
(***************************************************************************)
\* number of pipeline runs a behaviour starts
MaxRuns == 2
\* number of authenticated requests a behaviour makes
MaxRequests == 4
\* longest artifact, in lines
MaxLines == 3
\* largest production collection, in documents
MaxDocs == 3
\* longest raw category string, in characters
MaxStr == 4

(***************************************************************************)
(* Configuration values.                                                   *)
(***************************************************************************)
\* ARXIV_BATCH_SIZE as configured for the model (the default is 1000)
BATCH_SIZE == 2
\* 1024**3 of _has_enough_space
GiB == 1073741824
\* max_instances of the cron job
max_instances == 1
\* BATCH_SIZE of copy_prod_to_local_mongo as scaled for the model (it is 1000)
COPY_BATCH_SIZE == 2

\* Python's None, for the string-valued fields
None == "None"
\* None for the raw category string (a string is a sequence of characters)
NoCategories == <<None>>
\* a field value the store rejects (an invalid field type)
BadValue == "bad"

Max(a, b) == IF a > b THEN a ELSE b
SeqRange(q) == {q[i] : i \in 1..Len(q)}

(***************************************************************************)
(* _has_enough_space                                                       *)
(***************************************************************************)
\* the comparison made strict
_has_enough_space_strict(free, need_gb) == (free \div GiB) > need_gb

\* free_gb = free // (1024**3); False when free_gb < need_gb
_has_enough_space(free, need_gb) == ~((free \div GiB) < need_gb)

(***************************************************************************)
(* parse_categories: a whitespace-delimited string -> list of codes        *)
(***************************************************************************)
WhiteSpace == {" ", "\t"}

RECURSIVE StrSplit(_, _, _)
\* str.split(): maximal runs of non-whitespace characters, in order
StrSplit(raw, cur, acc) ==
    IF raw = <<>>
    THEN IF cur = <<>> THEN acc ELSE Append(acc, cur)
    ELSE IF Head(raw) \in WhiteSpace
         THEN StrSplit(Tail(raw), <<>>, IF cur = <<>> THEN acc ELSE Append(acc, cur))
         ELSE StrSplit(Tail(raw), Append(cur, Head(raw)), acc)

RECURSIVE StrStrip(_)
\* str.strip(): drop leading and trailing whitespace
StrStrip(s) ==
    IF s = <<>> THEN s
    ELSE IF Head(s) \in WhiteSpace THEN StrStrip(Tail(s))
    ELSE IF s[Len(s)] \in WhiteSpace THEN StrStrip(SubSeq(s, 1, Len(s) - 1))
    ELSE s

\* the raw string as the only code
parse_categories_whole(raw) ==
    IF raw = NoCategories \/ raw = <<>> THEN <<>> ELSE <<raw>>

parse_categories(raw) ==
    IF raw = NoCategories \/ raw = <<>>
    THEN <<>>
    ELSE LET toks == StrSplit(raw, <<>>, <<>>)
         IN  SelectSeq([i \in 1..Len(toks) |-> StrStrip(toks[i])],
                       LAMBDA c : c # <<>>)

(***************************************************************************)
(* Lines of the artifact.  kind: "blank" (only whitespace), "badjson" (not *)
(* parseable), "nonobj" (parseable JSON that is not an object), "obj" (a   *)
(* JSON object, data = its members; a null member is an absent member).    *)
(***************************************************************************)
NoData == [k \in {} |-> None]
BlankLine == [kind |-> "blank", data |-> NoData]
BadJsonLine == [kind |-> "badjson", data |-> NoData]
NonObjLine == [kind |-> "nonobj", data |-> NoData]
ObjLine(d) == [kind |-> "obj", data |-> d]
\* a region of a file that was never written (zero bytes): not parseable
Hole == [kind |-> "hole", data |-> NoData]

\* dict.get(key) for the string-valued members
Get(d, k) == IF k \in DOMAIN d THEN d[k] ELSE None
\* dict.get("categories")
GetCategories(d) == IF "categories" \in DOMAIN d THEN d["categories"] ELSE NoCategories

\* the document of one record with its None-valued fields kept
MakeDoc_nulls(data) ==
    [k \in {"id", "title", "authors", "abstract", "update_date", "categories"} |->
        IF k = "categories" THEN parse_categories(GetCategories(data)) ELSE Get(data, k)]

\* the document of one record, without the None-valued fields
MakeDoc(data) ==
    LET doc == [k \in {"id", "title", "authors", "abstract", "update_date"} |-> Get(data, k)]
        keep == {k \in DOMAIN doc : doc[k] # None}
    IN  [k \in keep \cup {"categories"} |->
            IF k = "categories" THEN parse_categories(GetCategories(data)) ELSE doc[k]]

\* UpdateOne({"id": _id}, {"$set": doc}, upsert=True), as pymongo keeps it
UpdateOne(filter, doc) == [q |-> filter, u |-> doc, multi |-> FALSE, upsert |-> TRUE]

RECURSIVE ParseLines(_, _)
\* the loop of read_and_parse_data: raised = an exception left the loop
ParseLines(lines, ops) ==
    IF lines = <<>> THEN [raised |-> FALSE, ops |-> ops]
    ELSE LET line == Head(lines) IN
         IF line.kind \in {"blank", "badjson", "hole"} THEN ParseLines(Tail(lines), ops)
         ELSE IF line.kind # "obj" THEN [raised |-> TRUE, ops |-> <<>>]
         ELSE IF Get(line.data, "id") \in {None, ""} THEN ParseLines(Tail(lines), ops)
         ELSE ParseLines(Tail(lines),
                  Append(ops, UpdateOne([id |-> line.data["id"]], MakeDoc(line.data))))

read_and_parse_data(lines) == ParseLines(lines, <<>>)

(***************************************************************************)
(* The primary collection is the sequence of its documents in insertion    *)
(* order; a document is a function from field names to values.             *)
(***************************************************************************)
\* the store rejects the document of this operation (invalid field type)
StoreRejects(op) == \E k \in DOMAIN op.u \ {"categories"} : op.u[k] = BadValue

\* an insert in place of the upsert
ApplyUpdate_insert(c, op) == Append(c, op.u @@ op.q)

\* an upsert that matches on the title in place of the id
ApplyUpdate_bytitle(c, op) ==
    LET m == {i \in 1..Len(c) : Get(c[i], "title") = Get(op.u, "title")} IN
    IF m # {}
    THEN LET i == CHOOSE j \in m : \A l \in m : j <= l
         IN  [c EXCEPT ![i] = op.u @@ c[i]]
    ELSE Append(c, op.u @@ op.q)

\* update_one(filter, {"$set": doc}, upsert=True)
ApplyUpdate(c, op) ==
    LET m == {i \in 1..Len(c) : c[i]["id"] = op.q["id"]} IN
    IF m # {}
    THEN LET i == CHOOSE j \in m : \A l \in m : j <= l
         IN  [c EXCEPT ![i] = op.u @@ c[i]]
    ELSE Append(c, op.u @@ op.q)

RECURSIVE BulkApply(_, _, _, _)
BulkApply(c, ops, idx, errs) ==
    IF idx > Len(ops) THEN [coll |-> c, writeErrors |-> errs]
    ELSE IF StoreRejects(ops[idx])
         THEN BulkApply(c, ops, idx + 1, Append(errs, [index |-> idx - 1, op |-> ops[idx]]))
         ELSE BulkApply(ApplyUpdate(c, ops[idx]), ops, idx + 1, errs)

\* collection.bulk_write(ops, ordered=False): every operation is tried, in
\* list order; the rejected ones come back as writeErrors
bulk_write(c, ops) == BulkApply(c, ops, 1, <<>>)

\* the document written to arxiv_failures for one write error
FailureRecord(e) == [id |-> Get(e.op, "id")]

\* the codes of the first document only
UniqueCodes_first(c) ==
    IF c # <<>> /\ "categories" \in DOMAIN c[1] THEN SeqRange(c[1]["categories"]) ELSE {}

\* the codes seed_categories_from_mongo collects
UniqueCodes(c) == UNION {SeqRange(c[i]["categories"]) : i \in {j \in 1..Len(c) : "categories" \in DOMAIN c[j]}}

\* the create_index calls of ingest_arxiv_to_mongo, in order
IndexList == <<"id_unique", "title", "abstract", "authors", "categories", "categories_update_date">>

(***************************************************************************)
(* The relational store.  A row of table categories is its position (the   *)
(* autoincrement id) in the sequence; a row of category_names carries the  *)
(* id of its category.                                                     *)
(***************************************************************************)
NoTaxonomy == [categories |-> <<>>, names |-> <<>>]

\* category codes, as strings of characters
CodeCs == <<"c", "s">>
CodeMath == <<"m", "a", "t", "h">>
CodeCsAI == <<"c", "s", ".", "A", "I">>
\* an item of CATEGORY_SEED without "parent"
NoParent == <<None>>

\* the model's CATEGORY_SEED: top-level codes first, the entry of "cs" given
\* twice as in the list of the source, then a child
CATEGORY_SEED ==
    << [code |-> CodeCs, parent |-> NoParent, depth |-> 1,
        names |-> <<[locale |-> "en", name |-> "Computer Science"]>>],
       [code |-> CodeMath, parent |-> NoParent, depth |-> 1,
        names |-> <<[locale |-> "en", name |-> "Mathematics"]>>],
       [code |-> CodeCs, parent |-> NoParent, depth |-> 1,
        names |-> <<[locale |-> "en", name |-> "Computer Science"]>>],
       [code |-> CodeCsAI, parent |-> CodeCs, depth |-> 2,
        names |-> <<[locale |-> "en", name |-> "Artificial Intelligence"]>>] >>

\* ids of the categories with this code
IdsOfCode(cats, code) == {i \in 1..Len(cats) : cats[i].code = code}
\* existing_by_code.get(code): the id, 0 for None
existing_by_code(cats, code) ==
    IF IdsOfCode(cats, code) = {} THEN 0
    ELSE CHOOSE i \in IdsOfCode(cats, code) : \A j \in IdsOfCode(cats, code) : j <= i

\* rows of category_names with this key
NameRows(names, cid, locale) ==
    {i \in 1..Len(names) : names[i].category_id = cid /\ names[i].locale = locale}

\* uq_category_locale and the primary key of category_names, unique code of
\* categories: the constraints the database checks when rows are written
UniqueViolation_off(tax) == FALSE

UniqueViolation(tax) ==
    \/ \E i, j \in 1..Len(tax.categories) :
          i # j /\ tax.categories[i].code = tax.categories[j].code
    \/ \E i, j \in 1..Len(tax.names) :
          /\ i # j
          /\ tax.names[i].category_id = tax.names[j].category_id
          /\ tax.names[i].locale = tax.names[j].locale

\* db.flush() / db.commit(): the pending rows are written; raised = the
\* database rejected them.  st = [tax, pending, raised]
flush(st) ==
    LET t == [st.tax EXCEPT !.names = @ \o st.pending] IN
    IF UniqueViolation(t) THEN [st EXCEPT !.raised = TRUE]
    ELSE [st EXCEPT !.tax = t, !.pending = <<>>]

\* _get_or_create_category(item); parent_id 0 is NULL
_get_or_create_category(st, item) ==
    LET cat == existing_by_code(st.tax.categories, item.code)
        parent_id == IF item.parent = NoParent THEN 0
                     ELSE existing_by_code(st.tax.categories, item.parent)
        added == [st EXCEPT !.tax.categories =
                        Append(@, [code |-> item.code, parent_id |-> parent_id,
                                   depth |-> item.depth])]
    IN  IF item.parent # NoParent /\ parent_id = 0 THEN [st EXCEPT !.raised = TRUE]
        ELSE IF cat = 0 THEN flush(added)
        ELSE [st EXCEPT !.tax.categories[cat].parent_id = parent_id,
                        !.tax.categories[cat].depth = item.depth]

RECURSIVE SeedNames(_, _, _)
\* the loop over item["names"]: the query sees the rows already written, not
\* the pending ones (the session is made with autoflush=False)
SeedNames(st, cid, names) ==
    IF names = <<>> THEN st
    ELSE LET n == Head(names)
             found == NameRows(st.tax.names, cid, n.locale)
             st2 == IF found # {}
                    THEN [st EXCEPT !.tax.names =
                             [i \in 1..Len(@) |-> IF i = CHOOSE j \in found : \A l \in found : j <= l
                                                  THEN [@[i] EXCEPT !.name = n.name] ELSE @[i]]]
                    ELSE [st EXCEPT !.pending =
                             Append(@, [category_id |-> cid, locale |-> n.locale, name |-> n.name])]
         IN  SeedNames(st2, cid, Tail(names))

RECURSIVE SeedItems(_, _)
\* the loop over CATEGORY_SEED
SeedItems(st, items) ==
    IF items = <<>> \/ st.raised THEN st
    ELSE LET st1 == _get_or_create_category(st, Head(items)) IN
         IF st1.raised THEN st1
         ELSE SeedItems(SeedNames(st1, existing_by_code(st1.tax.categories, Head(items).code),
                                  Head(items).names),
                        Tail(items))

\* seed_categories(db): raised = an exception left the function, and the
\* session is closed without a commit
seed_categories(tax) ==
    LET st == SeedItems([tax |-> tax, pending |-> <<>>, raised |-> FALSE], CATEGORY_SEED)
        done == IF st.raised THEN st ELSE flush(st)
    IN  IF done.raised THEN [raised |-> TRUE, tax |-> tax]
        ELSE [raised |-> FALSE, tax |-> done.tax]

\* the codes that have a category entity
TaxCodes(tax) == {tax.categories[i].code : i \in 1..Len(tax.categories)}

RECURSIVE seed_categories_from_codes(_, _)
\* the relational upsert of the observed codes: a leaf entity is created for
\* every code that has none
seed_categories_from_codes(tax, codes) ==
    IF codes = <<>> THEN tax
    ELSE seed_categories_from_codes(
             IF Head(codes) \in TaxCodes(tax) THEN tax
             ELSE [tax EXCEPT !.categories =
                      Append(@, [code |-> Head(codes), parent_id |-> 0, depth |-> 1])],
             Tail(codes))

\* list(unique_codes): the codes of a set in one of its orders
Orders(S) == {q \in [1..Cardinality(S) -> S] : \A i, j \in 1..Cardinality(S) : i # j => q[i] # q[j]}

(***************************************************************************)
(* State.                                                                  *)
(***************************************************************************)
VARIABLES
    env,        \* configuration and environment, fixed during a behaviour
    final,      \* the file at DATA_FILE_PATH
    part,       \* the file at DATA_FILE_PATH.with_suffix(".part")
    run,        \* the runs of load_arxiv_data_to_mongodb, by start order
    starts,     \* number of runs started
    coll,       \* db[settings.mongo_collection]
    failures,   \* db["arxiv_failures"]
    indexes,    \* indexes of the primary collection
    taxonomy,   \* the relational store: tables categories and category_names
    prod_coll,  \* the production collection prod_db[settings.prod_mongo_collection]
    seed_resp,  \* the response of the last POST /categories/seed
    token_version,  \* users.token_version of the registered user
    user_cache, \* user_cache of deps.py: token_ver of the key -> the cached User
    session     \* the tokens issued to the user and the last authenticated request

\* the variables of the authentication dependency
authvars == <<token_version, user_cache, session>>
\* the variables of the ingestion job
jobvars == <<env, final, part, run, starts, coll, failures, indexes, taxonomy,
             prod_coll, seed_resp>>

vars == <<env, final, part, run, starts, coll, failures, indexes, taxonomy,
          prod_coll, seed_resp, token_version, user_cache, session>>

Runs == 1..MaxRuns

\* MIN_FREE_GB = int(os.getenv("ARXIV_MIN_FREE_GB", "5"))
MIN_FREE_GB == env.min_free_gb

NoFile == [exists |-> FALSE, content |-> <<>>, pre |-> FALSE]
NewFile(content) == [exists |-> TRUE, content |-> content, pre |-> FALSE]

IdleRun == [pc |-> "idle", trigger |-> "none", fd |-> "none", downloaded |-> 0,
            ops |-> <<>>, nbatch |-> 0,
            present |-> FALSE, net |-> {}, errors |-> {}, skips |-> {},
            part_made |-> FALSE, writes |-> {}, ensure |-> "pending",
            result |-> "pending", added |-> 0, outage |-> FALSE,
            snap |-> <<>>, seed_failed |-> FALSE, batch |-> <<>>, cursor |-> 0,
            stages |-> <<>>, calls |-> <<>>,
            next_pct |-> 0, logs |-> <<>>, waited |-> 0, prod_client |-> "none"]

Terminal == {"done", "failed", "killed"}
Active(s) == run[s].pc \notin Terminal \cup {"idle"}

\* the file a write at offset off leaves: bytes between the old end and off
\* are a hole
WriteAt(content, off, chunk) ==
    [i \in 1..Max(Len(content), off + 1) |->
        IF i = off + 1 THEN chunk
        ELSE IF i <= Len(content) THEN content[i] ELSE Hole]

\* open file descriptions follow their file: after rename(part, final) a
\* writer of the .part file writes to the final file; a file that lost its
\* name is an orphan
FdAfterReplace(fd) ==
    CASE fd = "part" -> "final"
      [] fd = "final" -> "orphan"
      [] OTHER -> fd
FdAfterUnlink(fd) == IF fd = "part" THEN "orphan" ELSE fd

(***************************************************************************)
(* Triggers.                                                               *)
(***************************************************************************)
\* load_arxiv_data_to_mongodb is entered and selects the mode on
\* settings.app_env
StartRun(s, trig) ==
    /\ s = starts + 1
    /\ run[s].pc = "idle"
    /\ run' = [run EXCEPT ![s] = [IdleRun EXCEPT !.pc = IF env.app_env = "local" THEN "copy"
                                                        ELSE "ensure",
                                                 !.trigger = trig,
                                                 !.stages = IF env.app_env = "local" THEN <<>>
                                                            ELSE <<"Resolving">>,
                                                 !.present = final.exists,
                                                 !.snap = coll]]
    /\ starts' = starts + 1
    /\ UNCHANGED <<authvars, env, prod_coll, seed_resp, final, part, coll, failures, indexes, taxonomy>>

\* the cron job of _ensure_daily_job fires: max_instances=1 skips the run
\* while an instance of the job is executing
CronFire ==
    /\ Cardinality({t \in Runs : Active(t) /\ run[t].trigger = "cron"}) < max_instances
    /\ \E s \in Runs : StartRun(s, "cron")

\* POST /jobs/arxiv/run: background.add_task(_run)
run_arxiv == \E s \in Runs : StartRun(s, "manual")

(***************************************************************************)
(* Progress logging of the two strategies.  Sizes are counted in chunks    *)
(* (1 MiB); total 0 is "no content length reported"; next_pct 0 is None.   *)
(***************************************************************************)
\* next_pct = 5.0 if total else None
FirstPct(total) == IF total # 0 THEN 5 ELSE 0

\* whether 2 seconds have passed since the last log line, at one chunk: in a
\* slow transfer they may have, in a fast one they have not
Elapsed == IF env.slow THEN BOOLEAN ELSE {FALSE}

\* the body of _cb and of the loop of the URL strategy after
\* "downloaded += ...": p = [downloaded, next_pct, logs, waited]
Progress(p, total, elapsed) ==
    LET q == [p EXCEPT !.waited = IF elapsed THEN @ + 1 ELSE @] IN
    IF ~elapsed \/ total = 0 THEN q
    ELSE IF q.downloaded * 100 >= (IF q.next_pct = 0 THEN 1000 ELSE q.next_pct) * total
    THEN [q EXCEPT !.logs = Append(@, (q.downloaded * 100) \div total),
                   !.next_pct = IF @ = 0 THEN 0
                                ELSE 5 * (((q.downloaded * 100) \div (5 * total)) + 1)]
    ELSE q

RECURSIVE Callbacks(_, _, _)
\* the calls of _cb during s3.download_file, one per chunk; flags[i] tells
\* whether the interval had elapsed at call i
Callbacks(p, total, flags) ==
    IF flags = <<>> THEN p
    ELSE Callbacks(Progress([p EXCEPT !.downloaded = @ + 1], total, Head(flags)),
                   total, Tail(flags))

(***************************************************************************)
(* ensure_arxiv_file and the two strategies.                               *)
(***************************************************************************)
\* a strategy returned True: ensure_arxiv_file returns True
Resolved(r) == [r EXCEPT !.ensure = "true", !.pc = "ingest", !.fd = "none"]
\* load_arxiv_data_to_mongodb going on to the load whatever ensure_arxiv_file
\* returned
Unresolved_ignored(r) == [r EXCEPT !.ensure = "false", !.pc = "ingest", !.fd = "none"]

\* both strategies returned False: load_arxiv_data_to_mongodb returns False
Unresolved(r) == [r EXCEPT !.ensure = "false", !.result = "false", !.pc = "failed", !.fd = "none"]

\* the presence check with its result inverted
ensure_arxiv_file_inverted(s) ==
    /\ run[s].pc = "ensure"
    /\ run' = [run EXCEPT ![s] = IF final.exists THEN Unresolved(@) ELSE [@ EXCEPT !.pc = "s3"]]
    /\ UNCHANGED <<authvars, env, prod_coll, seed_resp, final, part, starts, coll, failures, indexes, taxonomy>>

\* ensure_arxiv_file taking a .part file it finds for the artifact
ensure_arxiv_file_adopt(s) ==
    /\ run[s].pc = "ensure"
    /\ IF ~final.exists /\ part.exists
       THEN /\ final' = part
            /\ part' = NoFile
            /\ run' = [run EXCEPT ![s] = Resolved(@)]
       ELSE /\ UNCHANGED <<final, part>>
            /\ run' = [run EXCEPT ![s] = IF final.exists THEN Resolved(@)
                                         ELSE [@ EXCEPT !.pc = "s3"]]
    /\ UNCHANGED <<authvars, env, prod_coll, seed_resp, starts, coll, failures, indexes, taxonomy>>

ensure_arxiv_file(s) ==
    /\ run[s].pc = "ensure"
    /\ run' = [run EXCEPT ![s] = IF final.exists THEN Resolved(@) ELSE [@ EXCEPT !.pc = "s3"]]
    /\ UNCHANGED <<authvars, env, prod_coll, seed_resp, final, part, starts, coll, failures, indexes, taxonomy>>

\* the S3 strategy without its credentials check
S3Begin_nocreds(s) ==
    /\ run[s].pc = "s3"
    /\ run' = [run EXCEPT ![s] =
          IF final.exists THEN Resolved(@)
          ELSE IF ~_has_enough_space(env.free, MIN_FREE_GB)
               THEN [@ EXCEPT !.pc = "url", !.errors = @ \cup {"space"}]
          ELSE [@ EXCEPT !.pc = "s3_dl", !.net = @ \cup {"s3_head"}]]
    /\ UNCHANGED <<authvars, env, prod_coll, seed_resp, final, part, starts, coll, failures, indexes, taxonomy>>

\* download_arxiv_from_s3 up to head_object
S3Begin(s) ==
    /\ run[s].pc = "s3"
    /\ run' = [run EXCEPT ![s] =
          IF final.exists THEN Resolved(@)
          ELSE IF ~_has_enough_space(env.free, MIN_FREE_GB)
               THEN [@ EXCEPT !.pc = "url", !.errors = @ \cup {"space"}]
          ELSE IF ~env.creds
               THEN [@ EXCEPT !.pc = "url", !.skips = @ \cup {"s3"}]
          ELSE [@ EXCEPT !.pc = "s3_dl", !.net = @ \cup {"s3_head"}]]
    /\ UNCHANGED <<authvars, env, prod_coll, seed_resp, final, part, starts, coll, failures, indexes, taxonomy>>

\* s3.download_file: the transfer writes a temporary file of its own and
\* renames it to the .part path when all bytes have arrived
S3Download(s) ==
    /\ run[s].pc = "s3_dl"
    /\ \E ok \in BOOLEAN, n \in 0..Len(env.src), total \in {env.total, 0} :
       \E flags \in [1..n -> Elapsed] :
         LET p == Callbacks([downloaded |-> 0, next_pct |-> FirstPct(total), logs |-> <<>>,
                             waited |-> 0], total, flags)
         IN
         IF ok
         THEN /\ n = Len(env.src)
              /\ part' = NewFile(env.src)
              /\ run' = [t \in Runs |->
                    IF t = s THEN [run[t] EXCEPT !.pc = "s3_replace", !.net = @ \cup {"s3_get"},
                                                 !.part_made = TRUE, !.logs = p.logs,
                                                 !.next_pct = p.next_pct, !.waited = p.waited]
                    ELSE [run[t] EXCEPT !.fd = FdAfterUnlink(@)]]
         ELSE /\ part' = part
              /\ run' = [run EXCEPT ![s] = [@ EXCEPT !.pc = "url", !.net = @ \cup {"s3_get"},
                                                     !.errors = @ \cup {"s3"}, !.logs = p.logs,
                                                     !.next_pct = p.next_pct,
                                                     !.waited = p.waited]]
    /\ UNCHANGED <<authvars, env, prod_coll, seed_resp, final, starts, coll, failures, indexes, taxonomy>>

\* tmp_path.replace(DATA_FILE_PATH) of the S3 strategy
S3Replace(s) ==
    /\ run[s].pc = "s3_replace"
    /\ IF part.exists
       THEN /\ final' = part
            /\ part' = NoFile
            /\ run' = [t \in Runs |->
                  IF t = s THEN Resolved(run[t])
                  ELSE [run[t] EXCEPT !.fd = FdAfterReplace(@)]]
       ELSE /\ UNCHANGED <<final, part>>
            /\ run' = [run EXCEPT ![s] = [@ EXCEPT !.pc = "url", !.errors = @ \cup {"s3"}]]
    /\ UNCHANGED <<authvars, env, prod_coll, seed_resp, starts, coll, failures, indexes, taxonomy>>

\* the URL strategy without its space check
UrlBegin_nospace(s) ==
    /\ run[s].pc = "url"
    /\ run' = [run EXCEPT ![s] =
          IF ~env.url THEN Unresolved([@ EXCEPT !.errors = @ \cup {"url"}])
          ELSE IF final.exists THEN Resolved(@)
          ELSE [@ EXCEPT !.pc = "url_get"]]
    /\ UNCHANGED <<authvars, env, prod_coll, seed_resp, final, part, starts, coll, failures, indexes, taxonomy>>

\* download_arxiv_from_presigned_url up to the space check
UrlBegin(s) ==
    /\ run[s].pc = "url"
    /\ run' = [run EXCEPT ![s] =
          IF ~env.url THEN Unresolved([@ EXCEPT !.errors = @ \cup {"url"}])
          ELSE IF final.exists THEN Resolved(@)
          ELSE IF ~_has_enough_space(env.free, MIN_FREE_GB)
               THEN Unresolved([@ EXCEPT !.errors = @ \cup {"space"}])
          ELSE [@ EXCEPT !.pc = "url_get"]]
    /\ UNCHANGED <<authvars, env, prod_coll, seed_resp, final, part, starts, coll, failures, indexes, taxonomy>>

\* the except clause of the URL strategy: unlink the .part file if it exists
UrlCleanup(s) ==
    /\ part' = NoFile
    /\ run' = [t \in Runs |->
          IF t = s THEN Unresolved([run[t] EXCEPT !.errors = @ \cup {"url"}])
          ELSE IF part.exists THEN [run[t] EXCEPT !.fd = FdAfterUnlink(@)] ELSE run[t]]

\* requests.get, raise_for_status and open(tmp_path, "wb")
UrlGet(s) ==
    /\ run[s].pc = "url_get"
    /\ \E ok \in BOOLEAN :
         IF ok
         THEN /\ part' = IF part.exists THEN [part EXCEPT !.content = <<>>] ELSE NewFile(<<>>)
              /\ run' = [run EXCEPT ![s] = [@ EXCEPT !.pc = "url_stream", !.fd = "part",
                                                     !.downloaded = 0, !.part_made = TRUE,
                                                     !.net = @ \cup {"http_get"},
                                                     !.next_pct = FirstPct(env.total),
                                                     !.logs = <<>>, !.waited = 0]]
         ELSE /\ part' = NoFile
              /\ run' = [t \in Runs |->
                    IF t = s THEN Unresolved([run[t] EXCEPT !.errors = @ \cup {"url"},
                                                            !.net = @ \cup {"http_get"}])
                    ELSE IF part.exists THEN [run[t] EXCEPT !.fd = FdAfterUnlink(@)] ELSE run[t]]
    /\ UNCHANGED <<authvars, env, prod_coll, seed_resp, final, starts, coll, failures, indexes, taxonomy>>

\* f.write(chunk) for the next chunk of r.iter_content, and the progress log
UrlChunk(s) ==
    /\ run[s].pc = "url_stream"
    /\ run[s].downloaded < Len(env.src)
    /\ LET chunk == env.src[run[s].downloaded + 1] IN
       /\ part' = IF run[s].fd = "part"
                  THEN [part EXCEPT !.content = WriteAt(@, run[s].downloaded, chunk)] ELSE part
       /\ final' = IF run[s].fd = "final"
                   THEN [final EXCEPT !.content = WriteAt(@, run[s].downloaded, chunk)] ELSE final
    /\ \E elapsed \in Elapsed :
         LET p == Progress([downloaded |-> run[s].downloaded + 1, next_pct |-> run[s].next_pct,
                            logs |-> run[s].logs, waited |-> run[s].waited],
                           env.total, elapsed)
         IN  run' = [run EXCEPT ![s] = [@ EXCEPT !.downloaded = p.downloaded,
                                                 !.next_pct = p.next_pct, !.logs = p.logs,
                                                 !.waited = p.waited]]
    /\ UNCHANGED <<authvars, env, prod_coll, seed_resp, starts, coll, failures, indexes, taxonomy>>

\* an exception while the response is streamed
UrlStreamError(s) ==
    /\ run[s].pc = "url_stream"
    /\ UrlCleanup(s)
    /\ UNCHANGED <<authvars, env, prod_coll, seed_resp, final, starts, coll, failures, indexes, taxonomy>>

\* the rename to the final path without waiting for the end of the stream
UrlFinish_early(s) ==
    /\ run[s].pc = "url_stream"
    /\ IF part.exists
       THEN /\ final' = part
            /\ part' = NoFile
            /\ run' = [t \in Runs |->
                  IF t = s THEN Resolved(run[t])
                  ELSE [run[t] EXCEPT !.fd = FdAfterReplace(@)]]
       ELSE /\ final' = final
            /\ UrlCleanup(s)
    /\ UNCHANGED <<authvars, env, prod_coll, seed_resp, starts, coll, failures, indexes, taxonomy>>

\* the stream ended: the file is closed and tmp_path.replace(DATA_FILE_PATH)
UrlFinish(s) ==
    /\ run[s].pc = "url_stream"
    /\ run[s].downloaded = Len(env.src)
    /\ IF part.exists
       THEN /\ final' = part
            /\ part' = NoFile
            /\ run' = [t \in Runs |->
                  IF t = s THEN Resolved(run[t])
                  ELSE [run[t] EXCEPT !.fd = FdAfterReplace(@)]]
       ELSE /\ final' = final
            /\ UrlCleanup(s)
    /\ UNCHANGED <<authvars, env, prod_coll, seed_resp, starts, coll, failures, indexes, taxonomy>>

(***************************************************************************)
(* ingest_arxiv_to_mongo.                                                  *)
(***************************************************************************)
\* ingest_arxiv_to_mongo returns False
Failed(r) == [r EXCEPT !.result = "false", !.pc = "failed"]

\* the "finally" of copy_prod_to_local_mongo:
\* "if prod_client: prod_client.close()"
Closed(r) == [r EXCEPT !.prod_client = IF @ = "open" THEN "closed" ELSE @]

\* IngestOpen with a failed create_index ending the run
IngestOpen_indexfatal(s) ==
    /\ run[s].pc = "ingest"
    /\ IF ~env.mongo_up \/ env.index_ok < Len(IndexList)
       THEN /\ run' = [run EXCEPT ![s] = Failed(@)]
            /\ UNCHANGED <<coll, indexes>>
       ELSE /\ indexes' = indexes \cup {IndexList[i] : i \in 1..env.index_ok}
            /\ coll' = IF env.remove_old THEN <<>> ELSE coll
            /\ run' = [run EXCEPT ![s] = [@ EXCEPT !.pc = "parse",
                          !.stages = Append(@, "Indexing"),
                          !.writes = @ \cup {"indexes"} \cup
                                     (IF env.remove_old THEN {"coll"} ELSE {})]]
    /\ UNCHANGED <<authvars, env, prod_coll, seed_resp, final, part, starts, failures, taxonomy>>

\* get_mongo_client_direct, the create_index calls and ARXIV_REMOVE_OLD_DATA
IngestOpen(s) ==
    /\ run[s].pc = "ingest"
    /\ IF ~env.mongo_up
       THEN /\ run' = [run EXCEPT ![s] = Failed(@)]
            /\ UNCHANGED <<coll, indexes>>
       ELSE /\ indexes' = indexes \cup {IndexList[i] : i \in 1..env.index_ok}
            /\ coll' = IF env.remove_old THEN <<>> ELSE coll
            /\ run' = [run EXCEPT ![s] = [@ EXCEPT !.pc = "parse",
                          !.stages = Append(@, "Indexing"),
                          !.writes = @ \cup {"indexes"} \cup
                                     (IF env.remove_old THEN {"coll"} ELSE {})]]
    /\ UNCHANGED <<authvars, env, prod_coll, seed_resp, final, part, starts, failures, taxonomy>>

\* ops = read_and_parse_data(DATA_FILE_PATH)
Parse(s) ==
    /\ run[s].pc = "parse"
    /\ LET r == read_and_parse_data(final.content) IN
       run' = [run EXCEPT ![s] =
          IF ~final.exists \/ r.raised THEN Failed([@ EXCEPT !.stages = Append(@, "Loading")])
          ELSE [@ EXCEPT !.pc = "batch", !.ops = r.ops, !.nbatch = 0,
                         !.stages = Append(@, "Loading")]]
    /\ UNCHANGED <<authvars, env, prod_coll, seed_resp, final, part, starts, coll, failures, indexes, taxonomy>>

\* what a bulk_write call can do
BulkOutcomes == IF env.flaky THEN {"ok", "unreachable"} ELSE {"ok"}

\* one try/except around collection.bulk_write(ops[lo - 1:hi], ordered=False);
\* the run goes on at pc2 with nb2 batches done.  calls keeps the slice of
\* every bulk_write call of the run
Submit(s, lo, hi, pc2, nb2) ==
    \E outcome \in BulkOutcomes :
      IF outcome = "unreachable"
      THEN /\ run' = [run EXCEPT ![s] = [@ EXCEPT !.pc = pc2, !.nbatch = nb2, !.outage = TRUE,
                                                  !.calls = Append(@, <<lo, hi>>)]]
           /\ UNCHANGED <<coll, failures>>
      ELSE LET r == bulk_write(coll, SubSeq(run[s].ops, lo, hi))
               n == Len(r.writeErrors)
           IN  /\ coll' = r.coll
               /\ IF n > 0 /\ env.truth_raises
                  THEN /\ failures' = failures
                       /\ run' = [run EXCEPT ![s] = Failed([@ EXCEPT !.writes = @ \cup {"coll"},
                                                                    !.calls = Append(@, <<lo, hi>>)])]
                  ELSE /\ failures' = failures \o [i \in 1..n |-> FailureRecord(r.writeErrors[i])]
                       /\ run' = [run EXCEPT ![s] = [@ EXCEPT !.pc = pc2, !.nbatch = nb2,
                                     !.added = @ + n,
                                     !.calls = Append(@, <<lo, hi>>),
                                     !.writes = @ \cup {"coll"} \cup
                                                (IF n > 0 THEN {"failures"} ELSE {})]]

\* the loop of batch_insert_documents reaches the end of a batch:
\* (i + 1) % batch_size == 0
BatchWrite(s) ==
    /\ run[s].pc = "batch"
    /\ (run[s].nbatch + 1) * BATCH_SIZE <= Len(run[s].ops)
    /\ LET i == (run[s].nbatch + 1) * BATCH_SIZE - 1 IN
       Submit(s, (i - BATCH_SIZE + 1) + 1, i + 1, "batch", run[s].nbatch + 1)
    /\ UNCHANGED <<authvars, env, prod_coll, seed_resp, final, part, starts, indexes, taxonomy>>

\* the end of the load returning True without the seeding step
Flush_done(s) ==
    /\ run[s].pc = "batch"
    /\ (run[s].nbatch + 1) * BATCH_SIZE > Len(run[s].ops)
    /\ IF run[s].ops # <<>>
       THEN Submit(s, 1, Len(run[s].ops), "done", run[s].nbatch)
       ELSE /\ run' = [run EXCEPT ![s].pc = "done"]
            /\ UNCHANGED <<coll, failures>>
    /\ UNCHANGED <<authvars, env, prod_coll, seed_resp, final, part, starts, indexes, taxonomy>>

\* after the loop: "if ops: collection.bulk_write(ops, ordered=False)"
Flush(s) ==
    /\ run[s].pc = "batch"
    /\ (run[s].nbatch + 1) * BATCH_SIZE > Len(run[s].ops)
    /\ IF run[s].ops # <<>>
       THEN Submit(s, 1, Len(run[s].ops), "seed", run[s].nbatch)
       ELSE /\ run' = [run EXCEPT ![s].pc = "seed"]
            /\ UNCHANGED <<coll, failures>>
    /\ UNCHANGED <<authvars, env, prod_coll, seed_resp, final, part, starts, indexes, taxonomy>>

\* what seed_categories_from_mongo can meet: the scan of the collection fails,
\* the relational upsert fails
SeedOutcomes ==
    {"ok"} \cup (IF env.flaky THEN {"find_error"} ELSE {})
           \cup (IF env.flaky \/ env.pg_flaky THEN {"seed_error"} ELSE {})

\* seed_categories_from_mongo(collection) and "return True"; a copy closes its
\* production client on the way out
Seed(s) ==
    /\ run[s].pc = "seed"
    /\ \E outcome \in SeedOutcomes :
         LET codes == UniqueCodes(coll) IN
         IF outcome = "find_error"
         THEN /\ run' = [run EXCEPT ![s] = Closed(Failed([@ EXCEPT !.stages = Append(@, "Materializing")]))]
              /\ taxonomy' = taxonomy
         ELSE IF codes = {}
         THEN /\ run' = [run EXCEPT ![s] = Closed([@ EXCEPT !.pc = "done", !.result = "true",
                                                     !.stages = Append(@, "Materializing")])]
              /\ taxonomy' = taxonomy
         ELSE IF outcome = "seed_error"
         THEN /\ run' = [run EXCEPT ![s] = Closed([@ EXCEPT !.pc = "done", !.result = "true",
                                                     !.stages = Append(@, "Materializing"),
                                                     !.seed_failed = TRUE])]
              /\ taxonomy' = taxonomy
         ELSE /\ run' = [run EXCEPT ![s] = Closed([@ EXCEPT !.pc = "done", !.result = "true",
                                                     !.stages = Append(@, "Materializing"),
                                                     !.writes = @ \cup {"taxonomy"}])]
              /\ \E order \in Orders(codes) :
                    taxonomy' = seed_categories_from_codes(taxonomy, order)
    /\ UNCHANGED <<authvars, env, prod_coll, seed_resp, final, part, starts, coll, failures, indexes>>

\* the server process is killed while the store applies a bulk_write of the
\* run: the operations before some position of the batch have been applied
KillInBatch(s) ==
    /\ run[s].pc = "batch"
    /\ LET full == (run[s].nbatch + 1) * BATCH_SIZE <= Len(run[s].ops)
           i == (run[s].nbatch + 1) * BATCH_SIZE - 1
           batch == IF full THEN SubSeq(run[s].ops, (i - BATCH_SIZE + 1) + 1, i + 1)
                    ELSE run[s].ops
       IN  \E k \in 1..(Len(batch) - 1) :
              coll' = bulk_write(coll, SubSeq(batch, 1, k)).coll
    /\ run' = [t \in Runs |-> IF Active(t) THEN [run[t] EXCEPT !.pc = "killed", !.fd = "none"]
                              ELSE run[t]]
    /\ UNCHANGED <<authvars, env, prod_coll, seed_resp, final, part, starts, failures, indexes, taxonomy>>

(***************************************************************************)
(* copy_prod_to_local_mongo.                                               *)
(***************************************************************************)
\* doc.pop("_id", None)
pop_id(doc) == [k \in DOMAIN doc \ {"_id"} |-> doc[k]]

RECURSIVE InsertOrdered(_, _, _)
\* insert_many(batch): the documents are inserted in order; with the unique
\* index on "id" the first document whose id is already stored stops the call
InsertOrdered(c, batch, unique) ==
    IF batch = <<>> THEN [coll |-> c, raised |-> FALSE]
    ELSE IF unique /\ \E i \in 1..Len(c) : Get(c[i], "id") = Get(Head(batch), "id")
         THEN [coll |-> c, raised |-> TRUE]
         ELSE InsertOrdered(Append(c, Head(batch)), Tail(batch), unique)

insert_many(c, batch) == InsertOrdered(c, batch, "id_unique" \in indexes)

\* the production collection after a write to the local one: the same
\* collection when both groups of settings name one collection of one instance
ProdAfter(c) == IF env.same_store THEN c ELSE prod_coll

\* what a call to a store can do in copy_prod_to_local_mongo
CopyOutcomes == IF env.flaky THEN {"ok", "unreachable"} ELSE {"ok"}

\* "except Exception" and the "finally" of copy_prod_to_local_mongo
CopyFailed(r) == Closed(Failed([r EXCEPT !.batch = <<>>]))

\* get_prod_mongo_client and get_mongo_client_direct.  prod_client is the
\* MongoClient that get_prod_mongo_client makes: without PROD_MONGO_HOST none
\* is made; when its ping fails the exception leaves get_prod_mongo_client
\* and nothing closes the client
CopyConnect(s) ==
    /\ run[s].pc = "copy"
    /\ run' = [run EXCEPT ![s] =
          IF ~env.prod_host THEN Failed(@)
          ELSE IF ~env.prod_up THEN Failed([@ EXCEPT !.prod_client = "open"])
          ELSE IF ~env.mongo_up THEN Closed(Failed([@ EXCEPT !.prod_client = "open"]))
          ELSE [@ EXCEPT !.pc = "copy_clear", !.prod_client = "open"]]
    /\ UNCHANGED <<authvars, env, seed_resp, prod_coll, final, part, starts, coll, failures, indexes,
                   taxonomy>>

\* local_coll.delete_many({}) and prod_coll.find({})
CopyClear(s) ==
    /\ run[s].pc = "copy_clear"
    /\ \E outcome \in CopyOutcomes :
         IF outcome = "unreachable"
         THEN /\ run' = [run EXCEPT ![s] = CopyFailed(@)]
              /\ UNCHANGED <<coll, prod_coll>>
         ELSE /\ coll' = <<>>
              /\ prod_coll' = ProdAfter(<<>>)
              /\ run' = [run EXCEPT ![s] = [@ EXCEPT !.pc = "copy_loop", !.cursor = 0,
                                                     !.batch = <<>>,
                                                     !.writes = @ \cup {"coll"}]]
    /\ UNCHANGED <<authvars, env, seed_resp, final, part, starts, failures, indexes, taxonomy>>

\* one round of "for doc in cursor"
CopyNext(s) ==
    /\ run[s].pc = "copy_loop"
    /\ run[s].cursor < Len(prod_coll)
    /\ \E outcome \in CopyOutcomes :
         LET batch == Append(run[s].batch, pop_id(prod_coll[run[s].cursor + 1]))
             r == insert_many(coll, batch)
         IN  IF outcome = "unreachable"
             THEN /\ run' = [run EXCEPT ![s] = CopyFailed(@)]
                  /\ UNCHANGED <<coll, prod_coll>>
             ELSE IF Len(batch) >= COPY_BATCH_SIZE
             THEN /\ coll' = r.coll
                  /\ prod_coll' = ProdAfter(r.coll)
                  /\ run' = [run EXCEPT ![s] =
                        IF r.raised THEN CopyFailed(@)
                        ELSE [@ EXCEPT !.cursor = @ + 1, !.batch = <<>>]]
             ELSE /\ run' = [run EXCEPT ![s] = [@ EXCEPT !.cursor = @ + 1, !.batch = batch]]
                  /\ UNCHANGED <<coll, prod_coll>>
    /\ UNCHANGED <<authvars, env, seed_resp, final, part, starts, failures, indexes, taxonomy>>

\* the end of the cursor, without the insert of the remaining batch
CopyFlush_drop(s) ==
    /\ run[s].pc = "copy_loop"
    /\ run[s].cursor >= Len(prod_coll)
    /\ run' = [run EXCEPT ![s] = [@ EXCEPT !.pc = "seed", !.batch = <<>>]]
    /\ UNCHANGED <<coll, prod_coll>>
    /\ UNCHANGED <<authvars, env, seed_resp, final, part, starts, failures, indexes, taxonomy>>

\* the end of the cursor: "if batch: local_coll.insert_many(batch)"
CopyFlush(s) ==
    /\ run[s].pc = "copy_loop"
    /\ run[s].cursor >= Len(prod_coll)
    /\ \E outcome \in CopyOutcomes :
         LET r == insert_many(coll, run[s].batch) IN
         IF run[s].batch = <<>>
         THEN /\ run' = [run EXCEPT ![s] = [@ EXCEPT !.pc = "seed"]]
              /\ UNCHANGED <<coll, prod_coll>>
         ELSE IF outcome = "unreachable"
         THEN /\ run' = [run EXCEPT ![s] = CopyFailed(@)]
              /\ UNCHANGED <<coll, prod_coll>>
         ELSE /\ coll' = r.coll
              /\ prod_coll' = ProdAfter(r.coll)
              /\ run' = [run EXCEPT ![s] =
                    IF r.raised THEN CopyFailed(@)
                    ELSE [@ EXCEPT !.pc = "seed", !.batch = <<>>]]
    /\ UNCHANGED <<authvars, env, seed_resp, final, part, starts, failures, indexes, taxonomy>>

\* the server process is killed: every executing run stops where it is
Kill ==
    /\ \E s \in Runs : Active(s)
    /\ run' = [t \in Runs |-> IF Active(t) THEN [run[t] EXCEPT !.pc = "killed", !.fd = "none"]
                              ELSE run[t]]
    /\ UNCHANGED <<authvars, env, prod_coll, seed_resp, final, part, starts, coll, failures, indexes, taxonomy>>

\* POST /categories/seed
seed(force) ==
    /\ LET existing == Len(taxonomy.categories)
           r == seed_categories(taxonomy)
       IN  IF existing > 0 /\ ~force
           THEN seed_resp' = "skipped" /\ taxonomy' = taxonomy
           ELSE IF r.raised
           THEN seed_resp' = "error" /\ taxonomy' = taxonomy
           ELSE seed_resp' = "seeded" /\ taxonomy' = r.tax
    /\ UNCHANGED <<authvars, env, prod_coll, final, part, run, starts, coll, failures, indexes>>

(***************************************************************************)
(* Authentication: get_current_user and the routes /auth/login, /auth/me   *)
(* and /auth/logout, for one registered user.  The User object of a cache  *)
(* entry is its token_version attribute.                                   *)
(***************************************************************************)
\* the attributes of a User object after the commit of its session
\* (expire_on_commit) and the close of the session: they cannot be read
Expired == -1

\* no token issued, no request made
NoSessions ==
    /\ token_version = 0
    /\ user_cache = << >>
    /\ session = [tokens |-> {}, revoked |-> {}, n |-> 0, ver |-> -1, auth |-> "none",
                  http |-> 0]

\* get_current_user for a token of the user that decodes, with "ver" token_ver
get_current_user(token_ver) ==
    IF token_ver \in DOMAIN user_cache
    THEN [auth |-> "user", cache |-> user_cache, user |-> user_cache[token_ver]]
    ELSE IF token_ver # token_version
    THEN [auth |-> "401", cache |-> user_cache, user |-> Expired]
    ELSE [auth |-> "user", cache |-> [k \in DOMAIN user_cache \cup {token_ver} |->
                                         IF k = token_ver THEN token_version ELSE user_cache[k]],
          user |-> token_version]

\* POST /auth/login with the password of the user
login ==
    /\ session' = [session EXCEPT !.tokens = @ \cup {token_version}]
    /\ UNCHANGED <<token_version, user_cache, jobvars>>

\* GET /auth/me with a token of the user
me(token_ver) ==
    /\ session.n < MaxRequests
    /\ LET r == get_current_user(token_ver) IN
       /\ user_cache' = r.cache
       /\ session' = [session EXCEPT !.n = @ + 1, !.ver = token_ver, !.auth = r.auth,
                         !.http = IF r.auth = "401" THEN 401
                                  ELSE IF r.user = Expired THEN 500 ELSE 200]
    /\ UNCHANGED <<token_version, jobvars>>

\* POST /auth/logout with a token of the user
logout(token_ver) ==
    /\ session.n < MaxRequests
    /\ LET r == get_current_user(token_ver) IN
       IF r.auth = "401" \/ r.user = Expired
       THEN /\ user_cache' = r.cache
            /\ token_version' = token_version
            /\ session' = [session EXCEPT !.n = @ + 1, !.ver = token_ver, !.auth = r.auth,
                              !.http = IF r.auth = "401" THEN 401 ELSE 500]
       ELSE /\ token_version' = r.user + 1
            /\ user_cache' = [r.cache EXCEPT ![token_ver] = Expired]
            /\ session' = [session EXCEPT !.n = @ + 1, !.ver = token_ver, !.auth = r.auth,
                              !.http = 204, !.revoked = @ \cup session.tokens]
    /\ UNCHANGED jobvars

\* an entry of user_cache reaches its ttl (300 seconds) or is evicted
CacheExpire(token_ver) ==
    /\ token_ver \in DOMAIN user_cache
    /\ user_cache' = [k \in DOMAIN user_cache \ {token_ver} |-> user_cache[k]]
    /\ UNCHANGED <<token_version, session, jobvars>>

(***************************************************************************)
(* Inputs.                                                                 *)
(***************************************************************************)
RecA1 == ObjLine([id |-> "a", title |-> "t1", categories |-> <<"x", " ", " ", "y">>])
RecA2 == ObjLine([id |-> "a", title |-> "t2"])
RecBad == ObjLine([id |-> "b", title |-> BadValue, categories |-> <<"y">>])
NoIdLine == ObjLine([title |-> "t1"])

LoadLines == {RecA1, RecA2, RecBad, NoIdLine, BlankLine, BadJsonLine, NonObjLine}
Artifacts == UNION {[1..n -> LoadLines] : n \in 0..MaxLines}

\* a document stored by an earlier load
OldDoc == [id |-> "a", title |-> "t0", authors |-> "u", categories |-> <<>>]

NoRuns == [s \in Runs |-> IdleRun]

BaseEnv == [src |-> <<RecA1, RecA2>>, free |-> GiB, creds |-> FALSE, url |-> TRUE,
            mongo_up |-> TRUE, index_ok |-> Len(IndexList), remove_old |-> FALSE,
            truth_raises |-> FALSE, flaky |-> FALSE, pg_flaky |-> FALSE,
            app_env |-> "prod", prod_up |-> TRUE, same_store |-> FALSE,
            min_free_gb |-> 1, total |-> 0, slow |-> FALSE, prod_host |-> TRUE]

EmptyStores ==
    /\ part = NoFile
    /\ run = NoRuns
    /\ starts = 0
    /\ failures = <<>>
    /\ indexes = {}
    /\ taxonomy = NoTaxonomy
    /\ prod_coll = <<>>
    /\ seed_resp = "none"
    /\ NoSessions

(***************************************************************************)
(* The system: both triggers, runs interleave.                             *)
(***************************************************************************)
Init ==
    /\ \E c \in BOOLEAN : env = [BaseEnv EXCEPT !.creds = c]
    /\ final = NoFile
    /\ coll = <<>>
    /\ EmptyStores

Acquire(s) ==
    \/ ensure_arxiv_file(s)
    \/ S3Begin(s)
    \/ S3Download(s)
    \/ S3Replace(s)
    \/ UrlBegin(s)
    \/ UrlGet(s)
    \/ UrlChunk(s)
    \/ UrlStreamError(s)
    \/ UrlFinish(s)

Load(s) ==
    \/ IngestOpen(s)
    \/ Parse(s)
    \/ BatchWrite(s)
    \/ Flush(s)
    \/ Seed(s)

Next ==
    \/ CronFire
    \/ run_arxiv
    \/ \E s \in Runs : Acquire(s) \/ Load(s)
    \/ Kill

Spec == Init /\ [][Next]_vars

(***************************************************************************)
(* Runs one after the other: a trigger arrives only when no run executes.  *)
(***************************************************************************)
Quiet == \A t \in Runs : ~Active(t)

SeqSources == {<<RecA1, RecBad>>, <<NonObjLine>>}

\* the stores: healthy; reachable with faults (an index that cannot be built,
\* bulk writes that time out, PyMongo 4 truth testing); not initialised
StoreEnvs ==
    { [BaseEnv EXCEPT !.mongo_up = TRUE],
      [BaseEnv EXCEPT !.index_ok = 3, !.truth_raises = TRUE, !.flaky = TRUE],
      [BaseEnv EXCEPT !.mongo_up = FALSE] }

InitSeq ==
    /\ \E e \in StoreEnvs, src \in SeqSources, f \in {GiB - 1, GiB},
          c \in BOOLEAN, u \in BOOLEAN :
          env = [e EXCEPT !.src = src, !.free = f, !.creds = c, !.url = u]
    /\ final \in {NoFile, [exists |-> TRUE, content |-> <<RecA2>>, pre |-> TRUE]}
    /\ coll = <<>>
    /\ EmptyStores

\* the cron job fires while no run executes
QuietCronFire == Quiet /\ CronFire
\* POST /jobs/arxiv/run arrives while no run executes
QuietRunArxiv == Quiet /\ run_arxiv

NextSeq ==
    \/ QuietCronFire
    \/ QuietRunArxiv
    \/ \E s \in Runs : Acquire(s) \/ Load(s)
    \/ Kill

SpecSeq == InitSeq /\ [][NextSeq]_vars

(***************************************************************************)
(* Loading of an artifact that is present, runs one after the other.       *)
(***************************************************************************)
InitLoad ==
    /\ \E r \in BOOLEAN, v \in BOOLEAN :
          env = [BaseEnv EXCEPT !.remove_old = r, !.truth_raises = v]
    /\ \E a \in Artifacts : final = [exists |-> TRUE, content |-> a, pre |-> TRUE]
    /\ coll \in {<<>>, <<OldDoc>>}
    /\ EmptyStores

NextLoad ==
    \/ QuietCronFire
    \/ QuietRunArxiv
    \/ \E s \in Runs : ensure_arxiv_file(s) \/ Load(s)

SpecLoad == InitLoad /\ [][NextLoad]_vars

(***************************************************************************)
(* Loading and category seeding: the artifact is present, its records      *)
(* carry category codes, runs one after the other.                         *)
(***************************************************************************)
RecCs == ObjLine([id |-> "c", title |-> "t3", categories |-> CodeCs])
RecAI == ObjLine([id |-> "d", categories |-> CodeCsAI \o <<" ">> \o CodeMath])
RecX == ObjLine([id |-> "a", categories |-> <<"\t", "x">>])

TaxArtifacts == {<<RecX>>, <<RecCs, RecAI>>, <<RecAI, RecX, RecCs>>}

InitTax ==
    /\ \E f \in BOOLEAN : env = [BaseEnv EXCEPT !.pg_flaky = f]
    /\ \E a \in TaxArtifacts : final = [exists |-> TRUE, content |-> a, pre |-> TRUE]
    /\ coll = <<>>
    /\ EmptyStores

\* POST /categories/seed arrives while no run executes: the request touches
\* the relational store only, which a run touches in its seeding step only
QuietSeed == Quiet /\ \E force \in BOOLEAN : seed(force)

NextTax ==
    \/ QuietCronFire
    \/ QuietRunArxiv
    \/ \E s \in Runs : ensure_arxiv_file(s) \/ Load(s)
    \/ QuietSeed

SpecTax == InitTax /\ [][NextTax]_vars

(***************************************************************************)
(* Loading with index creation failing at any of the create_index calls.   *)
(***************************************************************************)
IdxArtifacts == {<<RecA1, RecBad>>, <<NonObjLine>>, <<RecX, RecAI, RecA2>>}

InitIdx ==
    /\ \E k \in 0..Len(IndexList), r \in BOOLEAN, v \in BOOLEAN, up \in BOOLEAN :
          env = [BaseEnv EXCEPT !.index_ok = k, !.remove_old = r, !.truth_raises = v,
                                !.mongo_up = up]
    /\ \E a \in IdxArtifacts : final = [exists |-> TRUE, content |-> a, pre |-> TRUE]
    /\ coll \in {<<>>, <<OldDoc>>}
    /\ EmptyStores

NextIdx ==
    \/ QuietCronFire
    \/ QuietRunArxiv
    \/ \E s \in Runs : ensure_arxiv_file(s) \/ Load(s)

SpecIdx == InitIdx /\ [][NextIdx]_vars

(***************************************************************************)
(* Mirror-copy mode (settings.app_env is "local"), runs one after the      *)
(* other.                                                                  *)
(***************************************************************************)
ProdDocs ==
    { [_id |-> 1, id |-> "a", title |-> "t1", categories |-> <<CodeCs>>],
      [_id |-> 2, id |-> "b", categories |-> <<CodeCs, CodeMath>>],
      [_id |-> 3, id |-> "a", title |-> "t2"],
      [_id |-> 4, title |-> "t1"] }

\* the production collections: every document has its own _id
ProdColls ==
    UNION { {q \in [1..n -> ProdDocs] : \A i, j \in 1..n : i # j => q[i] # q[j]} :
            n \in 0..MaxDocs }

\* the model's local document of an earlier copy
LocalDoc == [id |-> "z", title |-> "t0"]

\* the settings and stores of a copy: two stores without faults; two stores,
\* calls that can fail and a unique index on the local "id"; one store under
\* both groups of settings; no PROD_MONGO_HOST; a production store that does
\* not answer the ping; no local client
CopyEnvs ==
    { [e |-> [BaseEnv EXCEPT !.app_env = "local"], idx |-> {}],
      [e |-> [BaseEnv EXCEPT !.app_env = "local", !.flaky = TRUE], idx |-> {"id_unique"}],
      [e |-> [BaseEnv EXCEPT !.app_env = "local", !.same_store = TRUE], idx |-> {}],
      [e |-> [BaseEnv EXCEPT !.app_env = "local", !.prod_host = FALSE], idx |-> {}],
      [e |-> [BaseEnv EXCEPT !.app_env = "local", !.prod_up = FALSE], idx |-> {}],
      [e |-> [BaseEnv EXCEPT !.app_env = "local", !.mongo_up = FALSE], idx |-> {}] }

InitCopy ==
    /\ \E ce \in CopyEnvs : env = ce.e /\ indexes = ce.idx
    /\ prod_coll \in ProdColls
    /\ coll = IF env.same_store THEN prod_coll ELSE <<LocalDoc>>
    /\ final = NoFile
    /\ part = NoFile
    /\ run = NoRuns
    /\ starts = 0
    /\ failures = <<>>
    /\ taxonomy = NoTaxonomy
    /\ seed_resp = "none"
    /\ NoSessions

Copy(s) ==
    \/ CopyConnect(s)
    \/ CopyClear(s)
    \/ CopyNext(s)
    \/ CopyFlush(s)
    \/ Seed(s)

NextCopy ==
    \/ QuietCronFire
    \/ QuietRunArxiv
    \/ \E s \in Runs : Copy(s)
    \/ Kill

SpecCopy == InitCopy /\ [][NextCopy]_vars

(***************************************************************************)
(* Loading of a record whose raw category string is any string over two    *)
(* letters, the blank and the tab, or null.                                *)
(***************************************************************************)
Chars == {"a", "b", " ", "\t"}
RawStrings == UNION {[1..n -> Chars] : n \in 0..MaxStr}

InitParse ==
    /\ env = BaseEnv
    /\ \E raw \in RawStrings \cup {NoCategories} :
          final = [exists |-> TRUE, pre |-> TRUE,
                   content |-> << IF raw = NoCategories THEN ObjLine([id |-> "c"])
                                  ELSE ObjLine([id |-> "c", categories |-> raw]),
                                  RecA2 >>]
    /\ coll = <<>>
    /\ EmptyStores

NextParse ==
    \/ QuietCronFire
    \/ QuietRunArxiv
    \/ \E s \in Runs : ensure_arxiv_file(s) \/ Load(s)

SpecParse == InitParse /\ [][NextParse]_vars

(***************************************************************************)
(* Kills at any step of a run, healthy stores, runs one after the other.   *)
(***************************************************************************)
KillSource == <<RecA1, RecA2, RecBad>>

InitKill ==
    /\ \E c \in BOOLEAN, r \in BOOLEAN :
          env = [BaseEnv EXCEPT !.src = KillSource, !.creds = c, !.remove_old = r]
    /\ final \in {NoFile, [exists |-> TRUE, content |-> <<RecA2, RecA1>>, pre |-> TRUE]}
    /\ coll \in {<<>>, <<OldDoc>>}
    /\ EmptyStores

NextKill ==
    \/ QuietCronFire
    \/ QuietRunArxiv
    \/ \E s \in Runs : Acquire(s) \/ Load(s) \/ KillInBatch(s)
    \/ Kill

SpecKill == InitKill /\ [][NextKill]_vars

(***************************************************************************)
(* Loading of artifacts whose lines have every field, null fields, a null  *)
(* id, an empty id or no id.                                               *)
(***************************************************************************)
RecFull == ObjLine([id |-> "f", title |-> "t1", authors |-> "u", abstract |-> "s",
                    update_date |-> "d", categories |-> CodeCs])
RecNulls == ObjLine([id |-> "n", title |-> None, abstract |-> None, authors |-> "u"])
NullIdLine == ObjLine([id |-> None, title |-> "t1"])
EmptyIdLine == ObjLine([id |-> "", title |-> "t1", categories |-> CodeCs])

ShapeLines == {RecFull, RecNulls, RecA2, NullIdLine, EmptyIdLine, NoIdLine, BlankLine}
ShapeArtifacts == UNION {[1..n -> ShapeLines] : n \in 0..2}

InitShape ==
    /\ env = BaseEnv
    /\ \E a \in ShapeArtifacts : final = [exists |-> TRUE, content |-> a, pre |-> TRUE]
    /\ coll = <<>>
    /\ EmptyStores

SpecShape == InitShape /\ [][NextLoad]_vars

(***************************************************************************)
(* Downloads with and without a reported content length, fast and slow,    *)
(* runs one after the other.                                               *)
(***************************************************************************)
InitProgress ==
    /\ \E c \in BOOLEAN, known \in BOOLEAN, w \in BOOLEAN :
          env = [BaseEnv EXCEPT !.src = KillSource, !.creds = c, !.slow = w,
                                !.total = IF known THEN Len(KillSource) ELSE 0]
    /\ final = NoFile
    /\ coll = <<>>
    /\ EmptyStores

SpecProgress == InitProgress /\ [][NextSeq]_vars

(***************************************************************************)
(* Acquisition under any free space and any ARXIV_MIN_FREE_GB, runs one    *)
(* after the other.                                                        *)
(***************************************************************************)
\* free bytes at, just above and just below the multiples of 1 GiB
FreeBytes == {0, 1, GiB - 1, GiB, GiB + 1, GiB + (GiB - 1)}
\* the thresholds: a negative one, zero and a positive one
Thresholds == {-1, 0, 1}

InitSpace ==
    /\ \E f \in FreeBytes, n \in Thresholds, c \in BOOLEAN, u \in BOOLEAN :
          env = [BaseEnv EXCEPT !.free = f, !.min_free_gb = n, !.creds = c, !.url = u]
    /\ final = NoFile
    /\ coll = <<>>
    /\ EmptyStores

SpecSpace == InitSpace /\ [][NextSeq]_vars

(***************************************************************************)
(* Requests of one user: logins, authenticated requests, logouts, and      *)
(* cache entries that expire.                                              *)
(***************************************************************************)
InitAuth ==
    /\ env = BaseEnv
    /\ final = NoFile
    /\ coll = <<>>
    /\ EmptyStores

NextAuth ==
    \/ login
    \/ \E v \in session.tokens : me(v)
    \/ \E v \in session.tokens : logout(v)
    \/ \E v \in session.tokens : CacheExpire(v)

SpecAuth == InitAuth /\ [][NextAuth]_vars

(***************************************************************************)
(* Properties.                                                             *)
(***************************************************************************)
Returned(s) == run[s].pc \in {"done", "failed"}
RejectedOps(ops) == {i \in 1..Len(ops) : StoreRejects(ops[i])}
Stored(c, id) == \E i \in 1..Len(c) : c[i]["id"] = id
LowSpace == ~_has_enough_space(env.free, MIN_FREE_GB)

\* C1: a run whose single batch of N operations (1 <= N <= batch size) has
\* exactly one operation rejected by the store, and no store outage, commits
\* the other N-1 operations, adds exactly one failure record and returns true.
C1_PartialFailureIsolation ==
    \A s \in Runs :
        ( /\ Returned(s)
          /\ ~run[s].outage
          /\ Len(run[s].ops) \in 1..BATCH_SIZE
          /\ Cardinality(RejectedOps(run[s].ops)) = 1 )
        => /\ run[s].result = "true"
           /\ run[s].added = 1
           /\ \A i \in (1..Len(run[s].ops)) \ RejectedOps(run[s].ops) :
                  Stored(coll, run[s].ops[i].q["id"])

\* C2: when two runs in succession over the same artifact have returned (and
\* no run has started since), the primary collection after the second run
\* equals the collection after the first, which is the collection the second
\* run started from.
C2_Idempotent ==
    \A s \in Runs \ {1} :
        ( /\ s = starts
          /\ Returned(s) /\ Returned(s - 1)
          /\ ~run[s].outage /\ ~run[s - 1].outage )
        => coll = run[s].snap

\* two runs have returned true over an artifact that repeats an id with
\* different fields
C2_Witness ==
    /\ starts = 2
    /\ run[1].pc = "done"
    /\ run[2].pc = "done"
    /\ \E i, j \in 1..Len(run[2].ops) :
          /\ i < j
          /\ run[2].ops[i].q = run[2].ops[j].q
          /\ run[2].ops[i].u # run[2].ops[j].u
    /\ coll # <<>>

\* C3: at most one run of load_arxiv_data_to_mongodb is executing.
C3_AtMostOneRun == Cardinality({t \in Runs : Active(t)}) <= 1

C5_PartialCleanup ==
    [][\A s \in Runs :
          ( \/ run[s].pc = "s3_dl" /\ run'[s].pc = "url"
            \/ run[s].pc = "url_stream" /\ run'[s].pc = "failed" )
          => ~part'.exists]_vars

\* C6: a run that starts without the artifact while the free space is below
\* MIN_FREE_GB makes no network call and creates no .part file, and
\* ensure_arxiv_file returns false.
C6_SpaceGuardAbort ==
    \A s \in Runs :
        (run[s].pc # "idle" /\ ~run[s].present /\ LowSpace)
        => /\ run[s].net = {}
           /\ ~run[s].part_made
           /\ run[s].ensure # "true"
           /\ Returned(s) => (run[s].ensure = "false" /\ run[s].result = "false")

\* the space guard stopped a run that had credentials and a URL
C6_Witness ==
    \E s \in Runs : /\ run[s].pc = "failed" /\ ~run[s].present /\ LowSpace
                    /\ env.creds /\ env.url

LoadStage == {"ingest", "parse", "batch", "seed", "done", "failed"}

\* C7: a run that starts with the artifact present makes no network call and
\* creates no .part file, ensure_arxiv_file returns true, and the run parses
\* and loads the file that was present.
C7_SkipOnPresent ==
    \A s \in Runs :
        run[s].present
        => /\ run[s].net = {}
           /\ ~run[s].part_made
           /\ run[s].ensure # "false"
           /\ run[s].pc \in LoadStage \cup {"ensure", "killed"}
           /\ run[s].pc \in LoadStage => run[s].ensure = "true"
           /\ final.exists
           /\ run[s].pc \in {"batch", "seed", "done"}
                 => run[s].ops = read_and_parse_data(final.content).ops

\* a run loaded the file that was present, with credentials and a URL set
C7_Witness ==
    \E s \in Runs : /\ run[s].present /\ run[s].pc = "done"
                    /\ env.creds /\ env.url /\ ~LowSpace

\* C8: without AWS credentials, when the URL strategy succeeds,
\* ensure_arxiv_file returns true, the artifact is the content the URL serves,
\* and the S3 strategy only recorded a skip: no error event, no network call
\* and no .part file before the URL strategy starts.
C8_FallbackOrdering ==
    \A s \in Runs :
        /\ (~env.creds /\ run[s].pc = "url" /\ ~LowSpace)
           => /\ run[s].skips = {"s3"}
              /\ run[s].errors = {}
              /\ run[s].net = {}
              /\ ~run[s].part_made
        /\ (~env.creds /\ run[s].ensure = "true" /\ "http_get" \in run[s].net)
           => /\ final.exists
              /\ final.content = env.src
              /\ run[s].skips = {"s3"}
              /\ run[s].errors = {}
              /\ run[s].net = {"http_get"}

\* the URL strategy resolved the artifact after the S3 strategy was skipped
C8_Witness ==
    \E s \in Runs : /\ ~env.creds /\ run[s].ensure = "true"
                    /\ "http_get" \in run[s].net /\ run[s].pc = "done"

\* C9: a run in which ensure_arxiv_file returned false returns false and has
\* written nothing; while no other run has gone further, the primary
\* collection, the failures, the indexes and the taxonomy are untouched.
C9_UnavailableSourceFatal ==
    /\ \A s \in Runs :
          run[s].ensure = "false"
          => /\ run[s].pc = "failed"
             /\ run[s].result = "false"
             /\ run[s].writes = {}
    /\ (\A s \in Runs : run[s].pc = "idle" \/ run[s].ensure = "false")
       => (coll = <<>> /\ failures = <<>> /\ indexes = {} /\ taxonomy = NoTaxonomy)

\* both strategies were tried and failed
C9_Witness ==
    \E s \in Runs : /\ run[s].ensure = "false"
                    /\ {"s3_get", "http_get"} \subseteq run[s].net

\* the lines that carry a record with a non-empty id
IsRecord(line) == line.kind = "obj" /\ Get(line.data, "id") \notin {None, ""}

\* C10: lines that are not records are skipped one by one: the operations of
\* a run are those of the record lines of the artifact, and the run does not
\* return false when the store is up and rejects nothing.
C10_MalformedNeverFatal ==
    \A s \in Runs :
        LET good == read_and_parse_data(SelectSeq(final.content, IsRecord)).ops IN
        /\ run[s].pc \in {"batch", "seed", "done"} => run[s].ops = good
        /\ (Returned(s) /\ env.mongo_up /\ ~env.flaky /\ RejectedOps(good) = {})
           => run[s].result = "true"

\* C11: a run in which a bulk write failed with an exception that is not a
\* per-document rejection (the store was unreachable) does not reach Done and
\* returns false.
C11_CatastrophicWriteFails ==
    \A s \in Runs :
        run[s].outage
        => /\ run[s].pc # "done"
           /\ Returned(s) => run[s].result = "false"

\* the codes in the categories lists of the stored documents
CodesOf(c) ==
    {code \in UNION {SeqRange(c[i]["categories"]) :
                        i \in {j \in 1..Len(c) : "categories" \in DOMAIN c[j]}} : TRUE}

OnePerKey(tax) ==
    /\ \A i, j \in 1..Len(tax.categories) :
          tax.categories[i].code = tax.categories[j].code => i = j
    /\ \A i, j \in 1..Len(tax.names) :
          ( /\ tax.names[i].category_id = tax.names[j].category_id
            /\ tax.names[i].locale = tax.names[j].locale ) => i = j

\* the codes of CATEGORY_SEED
SeedCodes == {CATEGORY_SEED[i].code : i \in 1..Len(CATEGORY_SEED)}

\* C13: the relational store never holds two categories with one code or two
\* names for one (category, locale); a materialization over a collection
\* whose codes all have an entity changes nothing, and a seed_categories call
\* when every code of CATEGORY_SEED has an entity creates no category.
C13_MaterializeIdempotent ==
    [][ /\ OnePerKey(taxonomy')
        /\ ( /\ \E s \in Runs : run[s].pc = "seed" /\ run'[s].pc # "seed"
             /\ CodesOf(coll) \subseteq TaxCodes(taxonomy) )
           => taxonomy' = taxonomy
        /\ (run' = run /\ SeedCodes \subseteq TaxCodes(taxonomy))
           => taxonomy'.categories = taxonomy.categories ]_vars

\* two runs have materialized the same collection and seed_categories has run
\* over the entities they made
C13_Witness ==
    /\ starts = 2
    /\ run[1].pc = "done" /\ "taxonomy" \in run[1].writes
    /\ run[2].pc = "done" /\ ~run[2].seed_failed
    /\ CodesOf(coll) # {}
    /\ seed_resp \in {"seeded", "error"}
    /\ SeedCodes \subseteq TaxCodes(taxonomy)

\* C14: a run that has entered seed_categories_from_mongo after a load in
\* which every bulk write reached the store returns true whatever fails
\* inside it, the scan of the collection or the relational upsert.
C14_MaterializationNonFatal ==
    [][\A s \in Runs :
          (run[s].pc = "seed" /\ ~run[s].outage /\ run'[s].pc \in {"done", "failed"})
          => run'[s].result = "true"]_vars

\* C15: the result of a run does not depend on how many create_index calls
\* succeeded: a returned run is true exactly when the store is initialised,
\* the artifact parses and no rejected document meets the PyMongo 4 truth
\* test; a true run has stored every accepted record and seeded its codes.
C15_IndexFailureNonFatal ==
    \A s \in Runs :
        Returned(s) =>
            LET r == read_and_parse_data(final.content) IN
            /\ run[s].result = "true"
                  <=> ( /\ env.mongo_up
                        /\ ~r.raised
                        /\ env.truth_raises => RejectedOps(r.ops) = {} )
            /\ (run[s].result = "true" /\ s = starts)
                  => /\ \A i \in (1..Len(r.ops)) \ RejectedOps(r.ops) :
                            Stored(coll, r.ops[i].q["id"])
                     /\ CodesOf(coll) \subseteq TaxCodes(taxonomy)

\* a run completed although create_index failed at its first or a later call
C15_Witness ==
    \E s \in Runs :
        /\ run[s].pc = "done"
        /\ env.index_ok < Len(IndexList)
        /\ Cardinality(indexes) < Len(IndexList)
        /\ coll # <<>>
        /\ TaxCodes(taxonomy) # {}

\* a document without its _id
WithoutId(d) == [k \in DOMAIN d \ {"_id"} |-> d[k]]

\* C16: when the last run started is a mirror-copy that returned true, the
\* local collection holds, in the order of the production collection, one
\* document for each production document, equal to it without its _id, and
\* nothing else.
C16_MirrorFullRefresh ==
    \A s \in Runs :
        (run[s].pc = "done" /\ s = starts /\ env.app_env = "local")
        => coll = [i \in 1..Len(prod_coll) |-> WithoutId(prod_coll[i])]

\* a copy of more documents than one copy batch replaced a local document
C16_Witness ==
    \E s \in Runs :
        /\ run[s].pc = "done" /\ s = starts /\ env.app_env = "local"
        /\ ~env.same_store
        /\ Len(prod_coll) > COPY_BATCH_SIZE
        /\ Len(coll) = Len(prod_coll)
        /\ run[s].snap = <<LocalDoc>>

\* C17: no step changes the production collection.
C17_RemoteReadOnly == [][prod_coll' = prod_coll]_vars

\* the first positions of the maximal runs of non-whitespace characters
TokenStarts(raw) ==
    {i \in 1..Len(raw) : raw[i] \notin WhiteSpace /\ (i = 1 \/ raw[i - 1] \in WhiteSpace)}
\* the last position of the run that starts at i
TokenEnd(raw, i) ==
    CHOOSE j \in i..Len(raw) :
        /\ \A k \in i..j : raw[k] \notin WhiteSpace
        /\ j = Len(raw) \/ raw[j + 1] \in WhiteSpace
\* the maximal non-whitespace tokens of a string, in their order
MaximalTokens(raw) ==
    [k \in 1..Cardinality(TokenStarts(raw)) |->
        LET i == CHOOSE x \in TokenStarts(raw) :
                     Cardinality({y \in TokenStarts(raw) : y < x}) = k - 1
        IN  SubSeq(raw, i, TokenEnd(raw, i))]

\* C18: the categories of the operation made from the first record are the
\* maximal non-whitespace tokens of its raw category string in their order,
\* none empty and none with whitespace; a null or empty string gives the
\* empty list.
C18_CategoryDerivation ==
    \A s \in Runs :
        run[s].pc \in {"batch", "seed", "done"}
        => LET data == final.content[1].data
               codes == run[s].ops[1].u["categories"]
           IN  /\ "categories" \notin DOMAIN data => codes = <<>>
               /\ "categories" \in DOMAIN data =>
                     /\ codes = MaximalTokens(data["categories"])
                     /\ data["categories"] = <<>> => codes = <<>>
                     /\ \A i \in 1..Len(codes) :
                           codes[i] # <<>> /\ SeqRange(codes[i]) \cap WhiteSpace = {}

\* a string with leading whitespace and two tokens was parsed and stored
C18_Witness ==
    \E s \in Runs :
        /\ run[s].pc = "done"
        /\ "categories" \in DOMAIN final.content[1].data
        /\ Len(final.content[1].data["categories"]) = 4
        /\ final.content[1].data["categories"][1] \in WhiteSpace
        /\ Len(run[s].ops[1].u["categories"]) = 2
        /\ \E i \in 1..Len(coll) : Len(coll[i]["categories"]) = 2

C20_RerunAfterKill ==
    \A s \in Runs :
        (s = starts /\ run[s].pc = "done" /\ \E t \in 1..(s - 1) : run[t].pc = "killed")
        => LET src == IF final.pre THEN final.content ELSE env.src
               ops == read_and_parse_data(src).ops
               base == IF env.remove_old THEN <<>> ELSE run[1].snap
           IN  /\ final.exists
               /\ final.content = src
               /\ ~part.exists
               /\ run[s].ops = ops
               /\ coll = bulk_write(base, ops).coll

\* a run completed after a run that was killed in mid-download
C20_Witness ==
    /\ starts = 2
    /\ run[2].pc = "done"
    /\ run[1].pc = "killed"
    /\ run[1].downloaded > 0 /\ run[1].downloaded < Len(env.src)
    /\ ~final.pre
    /\ coll # <<>>

\* the runs that hold the .part file open for writing
PartWriters == {s \in Runs : run[s].pc = "url_stream" /\ run[s].fd = "part"}

\* C21: at most one strategy invocation holds the .part file open for
\* writing, and no invocation writes through a descriptor whose file another
\* invocation has renamed to the final path.
C21_ExclusivePartWriter ==
    /\ Cardinality(PartWriters) <= 1
    /\ \A s \in Runs : run[s].pc = "url_stream" => run[s].fd # "final"

\* C22: a strategy that reached its space check found too little space
\* exactly when the free bytes are below MIN_FREE_GB * 2^30, and the step of
\* the check leaves the final file and the .part file as they were.
C22_SpaceGuardResult ==
    [][\A s \in Runs :
          /\ ( /\ ~run'[s].present
               /\ \/ run'[s].pc \in {"s3_dl", "s3_replace", "url", "url_get", "url_stream"}
                  \/ run'[s].ensure # "pending" )
             => ("space" \in run'[s].errors <=> env.free < MIN_FREE_GB * GiB)
          /\ ("space" \in run'[s].errors /\ "space" \notin run[s].errors)
             => (final' = final /\ part' = part)]_vars

\* both results of the check at a boundary: free space of exactly the
\* threshold let a download complete, one byte less stopped a run
C22_Witness ==
    \/ \E s \in Runs :
          /\ run[s].pc = "done" /\ "http_get" \in run[s].net
          /\ MIN_FREE_GB = 1 /\ env.free = MIN_FREE_GB * GiB
    \/ \E s \in Runs :
          /\ run[s].pc = "failed" /\ "space" \in run[s].errors
          /\ MIN_FREE_GB = 1 /\ env.free = MIN_FREE_GB * GiB - 1

\* the bulk_write calls of a run that carried operation i of its list
CallsWith(r, i) == {k \in 1..Len(r.calls) : r.calls[k][1] <= i /\ i <= r.calls[k][2]}

\* C23: when batch_insert_documents has returned, every operation of the
\* list was carried by exactly one bulk_write call of the run.
C23_SubmittedOnce ==
    \A s \in Runs :
        run[s].pc \in {"seed", "done"}
        => \A i \in 1..Len(run[s].ops) : Cardinality(CallsWith(run[s], i)) = 1

\* C24: when the first run has returned true, the ids in arxiv_failures are
\* the ids of the operations of the run that the store rejected.
C24_FailureRecordKey ==
    (starts = 1 /\ Returned(1) /\ run[1].result = "true")
    => {failures[i]["id"] : i \in 1..Len(failures)}
       = {run[1].ops[i].q["id"] : i \in RejectedOps(run[1].ops)}

\* the lines that have a non-null, non-empty member "id"
HasId(line) ==
    /\ line.kind = "obj"
    /\ "id" \in DOMAIN line.data
    /\ line.data["id"] # None
    /\ line.data["id"] # ""

\* C25: every operation of a run is an upsert of one document whose filter
\* is a non-empty id; its fields hold that id and a list of categories, and
\* no field is None; there is one operation per line that has an id, in the
\* order of the lines.
C25_OperationShape ==
    \A s \in Runs :
        run[s].pc \in {"batch", "seed", "done"}
        => LET ops == run[s].ops
               lines == SelectSeq(final.content, HasId)
           IN  /\ Len(ops) = Len(lines)
               /\ \A i \in 1..Len(ops) :
                     /\ ops[i].upsert /\ ~ops[i].multi
                     /\ DOMAIN ops[i].q = {"id"}
                     /\ ops[i].q["id"] = lines[i].data["id"]
                     /\ ops[i].q["id"] \notin {None, ""}
                     /\ "id" \in DOMAIN ops[i].u
                     /\ ops[i].u["id"] = ops[i].q["id"]
                     /\ "categories" \in DOMAIN ops[i].u
                     /\ ops[i].u["categories"] # NoCategories
                     /\ DOMAIN ops[i].u["categories"] = 1..Len(ops[i].u["categories"])
                     /\ \A k \in DOMAIN ops[i].u \ {"categories"} : ops[i].u[k] # None

\* a run loaded a record with null fields from an artifact whose other line
\* has an empty id
C25_Witness ==
    \E s \in Runs :
        /\ run[s].pc = "done"
        /\ final.content = <<EmptyIdLine, RecNulls>>
        /\ Len(run[s].ops) = 1
        /\ DOMAIN run[s].ops[1].u = {"id", "authors", "categories"}
        /\ Len(coll) = 1

\* C26: a download without a reported content length in which the minimum
\* interval had elapsed at every chunk has emitted a progress log event by
\* the time it completes.
C26_ProgressDualMode ==
    \A s \in Runs :
        ( /\ run[s].ensure = "true"
          /\ ~run[s].present
          /\ env.total = 0
          /\ run[s].waited = Len(env.src) )
        => run[s].logs # <<>>

\* C27: a request that carries a token issued before a logout of the user
\* is rejected by get_current_user with 401.
C27_LogoutInvalidates ==
    [][(session'.n = session.n + 1 /\ session'.ver \in session.revoked)
       => session'.auth = "401"]_vars

\* C28: a mirror-copy that cannot get the production client or the local
\* client writes nothing, leaves the local collection as it was at its start
\* and returns false; no returned copy leaves a production client open.
C28_CopyNeedsBothClients ==
    \A s \in Runs :
        /\ ( /\ env.app_env = "local" /\ run[s].pc # "idle"
             /\ (~env.prod_host \/ ~env.prod_up \/ ~env.mongo_up) )
           => /\ run[s].pc \in {"copy", "failed", "killed"}
              /\ run[s].writes = {}
              /\ coll = run[s].snap
              /\ Returned(s) => run[s].result = "false"
        /\ Returned(s) => run[s].prod_client # "open"

\* C29: the primary collection never holds two documents with one id.
C29_OneRecordPerId ==
    \A i, j \in 1..Len(coll) : coll[i]["id"] = coll[j]["id"] => i = j

\* two runs have loaded an artifact that repeats an id inside its first batch
\* and again after it
C29_Witness ==
    /\ starts = 2
    /\ run[1].pc = "done" /\ run[2].pc = "done"
    /\ Len(run[2].ops) = 3
    /\ Len(run[2].calls) = 2
    /\ run[2].ops[1].q = run[2].ops[2].q
    /\ run[2].ops[1].q = run[2].ops[3].q
    /\ run[2].ops[1].u # run[2].ops[2].u
    /\ Len(coll) = 1

\* C30: when the last run started has returned false, every id that had a
\* document in the primary collection at the start of the run still has one.
C30_FailedLoadKeepsData ==
    \A s \in Runs :
        (s = starts /\ run[s].pc = "failed")
        => \A i \in 1..Len(run[s].snap) : Stored(coll, run[s].snap[i]["id"])

====
